---------------------------- MODULE Spec2Model ----------------------------
(***************************************************************************)
(* A model of src/servers.rs of darwindarak/wakeup: the configuration      *)
(* loader (validate_health_check, determine_wakeup_order,                  *)
(* depth_first_search, parse_server_dependencies) and the health-check     *)
(* engine (perform_health_checks).                                         *)
(*                                                                         *)
(* A Server is a record [name, mac, depends, check, status]; the fields    *)
(* interface and vlan of the source are carried along untouched by every   *)
(* function modelled here and are left out.  A HealthCheck is a record     *)
(* [retry, timeout, method, status].                                       *)
(***************************************************************************)
EXTENDS Integers, Sequences, FiniteSets, TLC

VARIABLES
    file,          \* what fs::read_to_string / serde_yaml_ng::from_str produce
    config,        \* the decoded Vec<Server> handed to the loader
    wakeup_order,  \* the value returned by determine_wakeup_order(&config)
    search,        \* visited / visiting / sorted as they are at that return
    reorder,       \* determine_wakeup_order applied to its own Ok output
    validation,    \* validate_health_check's result for each check of config
    loaded,        \* the value returned by parse_server_dependencies
    server_state,  \* the Vec<Server> behind Arc<RwLock<..>>
    index,         \* the index perform_health_checks is called with
    rwlock,        \* the RwLock: its writer and its readers
    main,          \* perform_health_checks: its position and its locals
    tasks,         \* the spawned check tasks, in the order of `tasks`
    probe,         \* a check method and what the probed endpoint answers
    probe_result   \* the value returned by check_health for it

loader_vars == <<file, config, wakeup_order, search, reorder, validation, loaded>>
engine_vars == <<server_state, index, rwlock, main, tasks>>
probe_vars == <<probe, probe_result>>
vars == <<loader_vars, engine_vars, probe_vars>>

-----------------------------------------------------------------------------
(* Bounds of the model. *)

MaxServers == 2
MaxDeps == 1
MaxChecks == 1
MaxTasks == 2

-----------------------------------------------------------------------------
(* Small helpers. *)

Range(s) == {s[i] : i \in 1..Len(s)}

SeqsUpTo(S, n) == UNION {[1..k -> S] : k \in 0..n}

Max(S) == CHOOSE x \in S : \A y \in S : y <= x

-----------------------------------------------------------------------------
(* Data: ServerStatus, Server, and the inputs the loader is run on. *)

ServerStatusDefault == "Waiting"
CheckStatusDefault == "Waiting"

\* The names the bounded inputs draw from.
NamePool == {"server1", "server2", "server3"}

\* The mac of the i-th record of an input (the fixtures of the tests).
Macs == <<"00:11:22:33:44:55", "66:77:88:99:AA:BB",
          "AA:BB:CC:DD:EE:FF", "FF:EE:DD:CC:BB:AA">>

Server(name, mac, depends, check) ==
    [name |-> name, mac |-> mac, depends |-> depends, check |-> check,
     status |-> ServerStatusDefault]

\* Option<T>: None is the empty sequence, Some(v) the sequence of v alone.
None == <<>>
Some(v) == <<v>>
is_none(o) == o = None

default_retry_duration == 10
default_timeout_duration == 300

HealthCheck(retry, timeout, method) ==
    [retry |-> retry, timeout |-> timeout, method |-> method,
     status |-> CheckStatusDefault]

\* The ip strings a Port check is given, and those among them that
\* str::parse::<IpAddr> accepts (an IPv4 and an IPv6 literal).
IpPool == {"192.168.1.1", "::1", "invalid_ip"}
IpLiterals == {"192.168.1.1", "::1"}

\* HealthCheckMethod: every variant, with each optional criterion absent and
\* present.
HealthCheckMethods ==
    [type : {"Http"}, url : {"http://example.com"},
     status : {None, Some(200)}, regex : {None, Some("OK")}]
    \cup [type : {"Port"}, ip : IpPool, port : {80}]
    \cup [type : {"Shell"}, command : {"echo Hello"},
          status : {None, Some(0)}, regex : {None, Some("Hello")}]

\* Every list of at most MaxServers servers, each with a name of the pool,
\* at most MaxDeps dependency names (repeats allowed, names of the pool
\* whether or not a server carries them) and no checks; duplicate names,
\* undefined dependencies and cycles are all among them.
BoundedConfigs ==
    LET Shape == [name : NamePool, depends : SeqsUpTo(NamePool, MaxDeps)]
    IN  {[i \in 1..Len(sh) |->
            Server(sh[i].name, Macs[i], sh[i].depends, <<>>)] :
         sh \in SeqsUpTo(Shape, MaxServers)}

\* The fixtures of the unit tests.
RingOfFour ==
    <<Server("server1", Macs[1], <<"server2">>, <<>>),
      Server("server2", Macs[2], <<"server3">>, <<>>),
      Server("server3", Macs[3], <<"server4">>, <<>>),
      Server("server4", Macs[4], <<"server1">>, <<>>)>>

ChainOfThree ==
    <<Server("server1", Macs[1], <<"server2">>, <<>>),
      Server("server2", Macs[2], <<"server3">>, <<>>),
      Server("server3", Macs[3], <<>>, <<>>)>>

WakeupOrderFixture ==
    <<Server("server_a", "00:11:22:33:44:55", <<"server_b", "server_c">>, <<>>),
      Server("server_b", "11:22:33:44:55:66", <<"server_c">>, <<>>),
      Server("server_c", "22:33:44:55:66:77", <<>>, <<>>)>>

TestConfigs == {RingOfFour, ChainOfThree, WakeupOrderFixture}

\* Three servers, the first depending on the other two, in either order of
\* its depends list: the smallest inputs on which that order shows.
FanConfigs ==
    {<<Server("server1", Macs[1], <<d1, d2>>, <<>>),
       Server("server2", Macs[2], <<>>, <<>>),
       Server("server3", Macs[3], <<>>, <<>>)>> :
     <<d1, d2>> \in {<<"server2", "server3">>, <<"server3", "server2">>}}

\* The dependency shapes the loader is run on with checks attached: an
\* empty list, a resolvable pair, a cycle, an undefined dependency, and a
\* repeated name that hides an undefined dependency.
LoadShapes ==
    {<<>>,
     <<[name |-> "server1", depends |-> <<"server2">>],
       [name |-> "server2", depends |-> <<>>]>>,
     <<[name |-> "server1", depends |-> <<"server2">>],
       [name |-> "server2", depends |-> <<"server1">>]>>,
     <<[name |-> "server1", depends |-> <<"server3">>],
       [name |-> "server2", depends |-> <<>>]>>,
     <<[name |-> "server1", depends |-> <<>>],
       [name |-> "server1", depends |-> <<"server3">>]>>}

\* At most MaxChecks checks of any method, retry and timeout at their serde
\* defaults.
LoadChecks ==
    {[j \in 1..Len(ms) |->
         HealthCheck(default_retry_duration, default_timeout_duration, ms[j])] :
     ms \in SeqsUpTo(HealthCheckMethods, MaxChecks)}

\* The shape sh with the check lists cs on its servers.
LoadConfig(sh, cs) ==
    [i \in 1..Len(sh) |-> Server(sh[i].name, Macs[i], sh[i].depends, cs[i])]

-----------------------------------------------------------------------------
(* determine_wakeup_order and depth_first_search. *)

Pending == [kind |-> "Pending"]
Ok(servers) == [kind |-> "Ok", servers |-> servers]
Err(kind, text) == [kind |-> kind, name |-> text]

\* HashMap<String, &Server> collected from the list in order: a later server
\* of the same name replaces an earlier one.
map_server_names(servers) ==
    [n \in {servers[i].name : i \in 1..Len(servers)} |->
        servers[Max({i \in 1..Len(servers) : servers[i].name = n})]]

NoError == [kind |-> "None"]

\* The locals of determine_wakeup_order that depth_first_search mutates, and
\* the error, if any, that `?` is propagating.
SearchInit == [visited |-> {}, visiting |-> {}, sorted |-> <<>>, err |-> NoError]

RECURSIVE depth_first_search(_, _, _)
RECURSIVE search_depends(_, _, _, _)

\* A slip in the cycle test: made in the loop over depends, it names the
\* dependent server instead of the server that was entered again.
search_depends_names_dependent(server, i, server_from_name, st) ==
    IF i > Len(server.depends) THEN st
    ELSE IF server.depends[i] \notin DOMAIN server_from_name
         THEN [st EXCEPT !.err = Err("UndefinedDependency", server.depends[i])]
         ELSE IF server.depends[i] \in st.visiting
              THEN [st EXCEPT !.err = Err("CircularDependency", server.name)]
              ELSE LET st1 == depth_first_search(
                                  server_from_name[server.depends[i]],
                                  server_from_name, st)
                   IN  IF st1.err # NoError THEN st1
                       ELSE search_depends(server, i + 1, server_from_name, st1)

\* A slip in the handling of a missing name: the dependency is skipped
\* instead of reported.
search_depends_skips_missing(server, i, server_from_name, st) ==
    IF i > Len(server.depends) THEN st
    ELSE IF server.depends[i] \notin DOMAIN server_from_name
         THEN search_depends(server, i + 1, server_from_name, st)
         ELSE LET st1 == depth_first_search(
                             server_from_name[server.depends[i]],
                             server_from_name, st)
              IN  IF st1.err # NoError THEN st1
                  ELSE search_depends(server, i + 1, server_from_name, st1)

\* The loop `for dep in &server.depends`, from its i-th entry on; `?` leaves
\* it, and depth_first_search, at the first error.
search_depends(server, i, server_from_name, st) ==
    IF i > Len(server.depends) THEN st
    ELSE IF server.depends[i] \notin DOMAIN server_from_name
         THEN [st EXCEPT !.err = Err("UndefinedDependency", server.depends[i])]
         ELSE LET st1 == depth_first_search(
                             server_from_name[server.depends[i]],
                             server_from_name, st)
              IN  IF st1.err # NoError THEN st1
                  ELSE search_depends(server, i + 1, server_from_name, st1)

\* A slip in the order of emission: the server is pushed before its
\* dependencies are searched.
depth_first_search_preorder(server, server_from_name, st) ==
    IF server.name \in st.visiting
    THEN [st EXCEPT !.err = Err("CircularDependency", server.name)]
    ELSE IF server.name \in st.visited THEN st
    ELSE LET st1 == [st EXCEPT !.visiting = @ \cup {server.name},
                               !.sorted = Append(@, server.name)]
             st2 == search_depends(server, 1, server_from_name, st1)
         IN  IF st2.err # NoError THEN st2
             ELSE [st2 EXCEPT !.visiting = @ \ {server.name},
                              !.visited = @ \cup {server.name}]

depth_first_search(server, server_from_name, st) ==
    IF server.name \in st.visiting
    THEN [st EXCEPT !.err = Err("CircularDependency", server.name)]
    ELSE IF server.name \in st.visited THEN st
    ELSE LET st1 == [st EXCEPT !.visiting = @ \cup {server.name}]
             st2 == search_depends(server, 1, server_from_name, st1)
         IN  IF st2.err # NoError THEN st2
             ELSE [st2 EXCEPT !.visiting = @ \ {server.name},
                              !.visited = @ \cup {server.name},
                              !.sorted = Append(@, server.name)]

RECURSIVE search_servers(_, _, _, _)

\* A slip in the seeding: the servers are taken from the last to the first.
search_servers_reversed(servers, i, server_from_name, st) ==
    LET k == Len(servers) + 1 - i
    IN  IF i > Len(servers) THEN st
        ELSE IF servers[k].name \in st.visited
             THEN search_servers(servers, i + 1, server_from_name, st)
             ELSE LET st1 == depth_first_search(servers[k], server_from_name, st)
                  IN  IF st1.err # NoError THEN st1
                      ELSE search_servers(servers, i + 1, server_from_name, st1)

\* The loop `for server in servers` of determine_wakeup_order, from its i-th
\* server on.
search_servers(servers, i, server_from_name, st) ==
    IF i > Len(servers) THEN st
    ELSE IF servers[i].name \in st.visited
         THEN search_servers(servers, i + 1, server_from_name, st)
         ELSE LET st1 == depth_first_search(servers[i], server_from_name, st)
              IN  IF st1.err # NoError THEN st1
                  ELSE search_servers(servers, i + 1, server_from_name, st1)

\* visited, visiting and sorted as determine_wakeup_order leaves its loop.
wakeup_search(servers) ==
    search_servers(servers, 1, map_server_names(servers), SearchInit)

determine_wakeup_order(servers) ==
    LET server_from_name == map_server_names(servers)
        st == wakeup_search(servers)
    IN  IF st.err # NoError THEN st.err
        ELSE Ok([k \in 1..Len(st.sorted) |-> server_from_name[st.sorted[k]]])

-----------------------------------------------------------------------------
(* validate_health_check and parse_server_dependencies. *)

OkUnit == [kind |-> "Ok"]

\* ip.parse::<IpAddr>().is_err()
ip_parse_is_err(ip) == ip \notin IpLiterals

\* A slip in the condition: a check is refused when either criterion is
\* missing.
validate_health_check_either_missing(healthcheck) ==
    CASE healthcheck.type = "Http" ->
            IF is_none(healthcheck.status) \/ is_none(healthcheck.regex)
            THEN Err("BadHealthCheckDefinition", "HTTP health check requires an HTTP status code to match and/or a Regex to match in the response")
            ELSE OkUnit
      [] healthcheck.type = "Port" ->
            IF ip_parse_is_err(healthcheck.ip)
            THEN Err("BadHealthCheckDefinition", "Port check requires a valid IP address")
            ELSE OkUnit
      [] healthcheck.type = "Shell" ->
            IF is_none(healthcheck.status) \/ is_none(healthcheck.regex)
            THEN Err("BadHealthCheckDefinition", "Health check via shell command requires an return code to match and/or a Regex to match in the standard output")
            ELSE OkUnit

validate_health_check(healthcheck) ==
    CASE healthcheck.type = "Http" ->
            IF is_none(healthcheck.status) /\ is_none(healthcheck.regex)
            THEN Err("BadHealthCheckDefinition", "HTTP health check requires an HTTP status code to match and/or a Regex to match in the response")
            ELSE OkUnit
      [] healthcheck.type = "Port" ->
            IF ip_parse_is_err(healthcheck.ip)
            THEN Err("BadHealthCheckDefinition", "Port check requires a valid IP address")
            ELSE OkUnit
      [] healthcheck.type = "Shell" ->
            IF is_none(healthcheck.status) /\ is_none(healthcheck.regex)
            THEN Err("BadHealthCheckDefinition", "Health check via shell command requires an return code to match and/or a Regex to match in the standard output")
            ELSE OkUnit

\* The loops `for server in &servers { for healthcheck in &server.check`
\* of parse_server_dependencies, from check j of server i on; `?` leaves
\* them at the first error.
RECURSIVE validate_checks(_, _, _)
validate_checks(servers, i, j) ==
    IF i > Len(servers) THEN OkUnit
    ELSE IF j > Len(servers[i].check) THEN validate_checks(servers, i + 1, 1)
    ELSE LET r == validate_health_check(servers[i].check[j].method)
         IN  IF r # OkUnit THEN r ELSE validate_checks(servers, i, j + 1)

\* A slip in the order of the two passes: the graph is resolved first.
parse_server_dependencies_resolves_first(f, servers) ==
    IF f = "unreadable" THEN Err("ParseError", "read_to_string")
    ELSE IF f = "malformed" THEN Err("ParseError", "from_str")
    ELSE LET sorted == determine_wakeup_order(servers)
             v == validate_checks(servers, 1, 1)
         IN  IF sorted.kind # "Ok" THEN sorted
             ELSE IF v # OkUnit THEN v ELSE sorted

\* f is what reading and decoding the file came to; servers is the decoded
\* list when it came to one.
parse_server_dependencies(f, servers) ==
    IF f = "unreadable" THEN Err("ParseError", "read_to_string")
    ELSE IF f = "malformed" THEN Err("ParseError", "from_str")
    ELSE LET v == validate_checks(servers, 1, 1)
         IN  IF v # OkUnit THEN v ELSE determine_wakeup_order(servers)

-----------------------------------------------------------------------------
(* The resolver run on a decoded list, as the unit tests run it. *)

\* perform_health_checks is not running.
EngineIdle ==
    /\ server_state = <<>>
    /\ index = 1
    /\ rwlock = [writer |-> [who |-> "none", k |-> 0], readers |-> {}]
    /\ main = [pc |-> "idle"]
    /\ tasks = <<>>

\* The loader is not running.
LoaderIdle ==
    /\ file = "decoded"
    /\ config = <<>>
    /\ wakeup_order = Pending
    /\ search = SearchInit
    /\ reorder = Pending
    /\ validation = Pending
    /\ loaded = Pending

\* check_health has not been called.
ProbeIdle ==
    /\ probe = [method |-> [type |-> "Port", ip |-> "::1", port |-> 80],
                reply |-> [kind |-> "Err"]]
    /\ probe_result = None


Init ==
    /\ file = "decoded"
    /\ config \in BoundedConfigs \cup TestConfigs \cup FanConfigs
    /\ wakeup_order = Pending
    /\ search = SearchInit
    /\ reorder = Pending
    /\ validation = Pending
    /\ loaded = Pending
    /\ EngineIdle
    /\ ProbeIdle

DetermineWakeupOrder ==
    /\ wakeup_order = Pending
    /\ wakeup_order' = determine_wakeup_order(config)
    /\ search' = wakeup_search(config)
    /\ UNCHANGED <<file, config, reorder, validation, loaded, engine_vars, probe_vars>>

\* The caller hands an Ok result back to determine_wakeup_order.
DetermineWakeupOrderAgain ==
    /\ wakeup_order.kind = "Ok"
    /\ reorder = Pending
    /\ reorder' = determine_wakeup_order(wakeup_order.servers)
    /\ UNCHANGED <<file, config, wakeup_order, search, validation, loaded, engine_vars, probe_vars>>

Next ==
    \/ DetermineWakeupOrder
    \/ DetermineWakeupOrderAgain

Spec == Init /\ [][Next]_vars

-----------------------------------------------------------------------------
(* The loader run on a configuration file. *)

InitLoad ==
    /\ file \in {"unreadable", "malformed", "decoded"}
    /\ IF file = "decoded"
       THEN \E sh \in LoadShapes : \E cs \in [1..Len(sh) -> LoadChecks] :
               config = LoadConfig(sh, cs)
       ELSE config = <<>>
    /\ wakeup_order = Pending
    /\ search = SearchInit
    /\ reorder = Pending
    /\ validation = Pending
    /\ loaded = Pending
    /\ EngineIdle
    /\ ProbeIdle

\* validate_health_check on every check of a decoded list, as the unit tests
\* call it.
ValidateHealthChecks ==
    /\ file = "decoded"
    /\ validation = Pending
    /\ validation' = [i \in 1..Len(config) |->
                         [j \in 1..Len(config[i].check) |->
                             validate_health_check(config[i].check[j].method)]]
    /\ UNCHANGED <<file, config, wakeup_order, search, reorder, loaded, engine_vars, probe_vars>>

ParseServerDependencies ==
    /\ loaded = Pending
    /\ loaded' = parse_server_dependencies(file, config)
    /\ UNCHANGED <<file, config, wakeup_order, search, reorder, validation, engine_vars, probe_vars>>

NextLoad ==
    \/ ValidateHealthChecks
    \/ ParseServerDependencies

SpecLoad == InitLoad /\ [][NextLoad]_vars

-----------------------------------------------------------------------------
(* One probe attempt: check_health and the three probes.  What the probed  *)
(* endpoint does is the reply: [kind |-> "Err"] when reqwest::get, the     *)
(* spawn of sh or TcpStream::connect fails, and otherwise a response       *)
(* [status, body] (body is None when response.text() fails), a process     *)
(* output [code, stdout] (code is None when the process was ended by a     *)
(* signal) or an open connection.                                          *)

\* Regex::is_match on the patterns and texts used here.
RegexMatches ==
    {<<"OK", "OK">>, <<"Hello", "Hello">>,
     <<"health", "healthy">>, <<"hello", "hello">>}

is_match(regex, text) == <<regex, text>> \in RegexMatches

HttpReplies ==
    {[kind |-> "Err"]}
    \cup [kind : {"Ok"}, status : {200, 503},
          body : {None, Some("OK"), Some("down")}]

ShellReplies ==
    {[kind |-> "Err"]}
    \cup [kind : {"Ok"}, code : {None, Some(0), Some(1)},
          stdout : {"Hello", "down"}]

PortReplies == {[kind |-> "Err"], [kind |-> "Ok"]}

\* A criterion is satisfied as soon as it is satisfied alone.
http_health_check_any_criterion(expected_status, payload_regex, reply) ==
    /\ reply.kind = "Ok"
    /\ \/ is_none(expected_status) /\ is_none(payload_regex)
       \/ ~is_none(expected_status) /\ reply.status = expected_status[1]
       \/ /\ ~is_none(payload_regex)
          /\ ~is_none(reply.body)
          /\ is_match(payload_regex[1], reply.body[1])

http_health_check(expected_status, payload_regex, reply) ==
    IF reply.kind = "Ok"
    THEN IF ~is_none(expected_status) /\ reply.status # expected_status[1]
         THEN FALSE
         ELSE IF ~is_none(payload_regex)
              THEN IF ~is_none(reply.body)
                      /\ is_match(payload_regex[1], reply.body[1])
                   THEN TRUE
                   ELSE FALSE
              ELSE TRUE
    ELSE FALSE

port_health_check(reply) == reply.kind = "Ok"

shell_health_check(expected_status, payload_regex, reply) ==
    IF reply.kind = "Ok"
    THEN IF ~is_none(expected_status) /\ reply.code # expected_status
         THEN FALSE
         ELSE IF ~is_none(payload_regex)
                 /\ ~is_match(payload_regex[1], reply.stdout)
              THEN FALSE
              ELSE TRUE
    ELSE FALSE

check_health(check, reply) ==
    CASE check.type = "Http" ->
             http_health_check(check.status, check.regex, reply)
      [] check.type = "Port" -> port_health_check(reply)
      [] check.type = "Shell" ->
             shell_health_check(check.status, check.regex, reply)

RepliesTo(check) ==
    CASE check.type = "Http" -> HttpReplies
      [] check.type = "Port" -> PortReplies
      [] check.type = "Shell" -> ShellReplies

InitProbe ==
    /\ LoaderIdle
    /\ EngineIdle
    /\ \E check \in HealthCheckMethods : \E reply \in RepliesTo(check) :
           probe = [method |-> check, reply |-> reply]
    /\ probe_result = None

CheckHealth ==
    /\ probe_result = None
    /\ probe_result' = Some(check_health(probe.method, probe.reply))
    /\ UNCHANGED <<probe, loader_vars, engine_vars>>

NextProbe == CheckHealth

SpecProbe == InitProbe /\ [][NextProbe]_vars

-----------------------------------------------------------------------------
(* perform_health_checks.  A step of the caller or of a task runs from the *)
(* completion of one .await to the next .await: acquiring the lock, the    *)
(* probe, the sleep and the join of a task are the awaits.                 *)

\* <<retry, timeout>> of the checks the engine is run on, in clock ticks: a
\* timeout of zero, a retry shorter than the timeout and a retry longer than
\* the timeout.
EnginePolicies == {<<1, 0>>, <<1, 2>>, <<3, 2>>}

EngineChecks ==
    {HealthCheck(p[1], p[2],
                 [type |-> "Port", ip |-> "192.168.1.1", port |-> 80]) :
     p \in EnginePolicies}

\* The check of test_health_check_timeout: retry 800 ms and timeout 2 s, in
\* ticks of 400 ms.
TimeoutTestCheck ==
    HealthCheck(2, 5, [type |-> "Http", url |-> "http://example.com",
                       status |-> Some(200), regex |-> None])

\* The shared list: the server the call is about, with at most MaxTasks
\* checks or with the check of the timeout test, and another server with a
\* check of its own.
EngineServers ==
    LET other == Server("server2", Macs[2], <<>>,
                        <<HealthCheck(1, 2, [type |-> "Port",
                                             ip |-> "::1", port |-> 80])>>)
    IN  UNION {{<<Server("server1", Macs[1], <<"server2">>, cs), other>>,
                <<other, Server("server1", Macs[1], <<"server2">>, cs)>>} :
               cs \in SeqsUpTo(EngineChecks, MaxTasks)
                         \cup {<<TimeoutTestCheck>>}}

\* Who holds the lock: nobody, the caller, or the k-th task.
Nobody == [who |-> "none", k |-> 0]
Caller == [who |-> "main", k |-> 0]
TaskId(k) == [who |-> "task", k |-> k]

Unlocked == [writer |-> Nobody, readers |-> {}]
\* A call that starts out timed out until a check proves otherwise.
TimeoutInitPessimistic == TRUE

\* let mut timeout = false
TimeoutInit == FALSE

InitEngine ==
    /\ LoaderIdle
    /\ ProbeIdle
    /\ server_state \in EngineServers
    /\ index = CHOOSE i \in 1..2 : server_state[i].name = "server1"
    /\ rwlock = Unlocked
    /\ main = [pc |-> "read", checks |-> <<>>, check_index |-> 1,
               join_index |-> 1, timeout |-> TimeoutInit, returned |-> "none"]
    /\ tasks = <<>>

\* servers.read().await
MainReadLock ==
    /\ main.pc = "read"
    /\ rwlock.writer = Nobody
    /\ rwlock' = [rwlock EXCEPT !.readers = @ \cup {Caller}]
    /\ main' = [main EXCEPT !.pc = "clone"]
    /\ UNCHANGED <<server_state, index, tasks, loader_vars, probe_vars>>

\* A read guard kept alive past the end of its block.
drop_read_guard_leaked(lock, holder) == lock

\* A read guard going out of scope at the end of its block.
drop_read_guard(lock, holder) == [lock EXCEPT !.readers = @ \ {holder}]

\* servers_read[index].check.clone(), the guard dropped; then the for loop
\* reaches servers.write().await, or, with no check, the final one.
MainCloneChecks ==
    /\ main.pc = "clone"
    /\ rwlock' = drop_read_guard(rwlock, Caller)
    /\ main' = [main EXCEPT
                   !.checks = server_state[index].check,
                   !.pc = IF server_state[index].check = <<>> THEN "status"
                          ELSE "mark"]
    /\ UNCHANGED <<server_state, index, tasks, loader_vars, probe_vars>>

\* servers.write().await of the for loop
MainMarkLock ==
    /\ main.pc = "mark"
    /\ rwlock = Unlocked
    /\ rwlock' = [rwlock EXCEPT !.writer = Caller]
    /\ main' = [main EXCEPT !.pc = "marking"]
    /\ UNCHANGED <<server_state, index, tasks, loader_vars, probe_vars>>

\* A task that is given the index of the first check whatever its own is.
NewTaskFirstIndex(check_index, check) ==
    [check_index |-> 1, check |-> check, pc |-> "spawned",
     elapsed |-> 0, sleep_left |-> 0, attempts |-> 0, healthy |-> 0,
     result |-> "none"]

\* A task as tokio::spawn leaves it.  Time is kept per task and only as far
\* as the code and the statements below compare it: elapsed is
\* start_time.elapsed() counted in ticks up to timeout + 1 (which stands for
\* anything beyond the timeout), sleep_left the ticks before the sleep the
\* task is in may return.  attempts and healthy count the calls of
\* check_health the task has made and those that returned true.
NewTask(check_index, check) ==
    [check_index |-> check_index, check |-> check, pc |-> "spawned",
     elapsed |-> 0, sleep_left |-> 0, attempts |-> 0, healthy |-> 0,
     result |-> "none"]

\* A fan-out that spawns the task without marking its check.
mark_running_skipped(servers, i, check_index) == servers
\* A fan-out that marks the first check of the other node of a list of two.
mark_running_other_node(servers, i, check_index) ==
    [servers EXCEPT ![3 - i].check[1].status = "Running"]

\* servers_write[index].check[check_index].status = CheckStatus::Running
mark_running(servers, i, check_index) ==
    [servers EXCEPT ![i].check[check_index].status = "Running"]

\* A write guard kept alive past the end of its block.
drop_write_guard_leaked(lock) == lock

\* A write guard going out of scope at the end of its block.
drop_write_guard(lock) == [lock EXCEPT !.writer = Nobody]

\* status = Running, the guard dropped, tokio::spawn, tasks.push; then the
\* next turn of the loop, or the loop over tasks.
MainMarkRunningAndSpawn ==
    /\ main.pc = "marking"
    /\ server_state' = mark_running(server_state, index, main.check_index)
    /\ rwlock' = drop_write_guard(rwlock)
    /\ tasks' = Append(tasks, NewTask(main.check_index,
                                      main.checks[main.check_index]))
    /\ main' = [main EXCEPT
                   !.check_index = @ + 1,
                   !.pc = IF main.check_index = Len(main.checks) THEN "join"
                          ELSE "mark"]
    /\ UNCHANGED <<index, loader_vars, probe_vars>>

\* A slip in the aggregation: a TimedOut seen earlier is overwritten by a
\* later task's result.
JoinedTimeoutLastWins(seen, result) == result = "TimedOut"

\* timeout after task.await.unwrap() returned result.
JoinedTimeout(seen, result) == seen \/ result = "TimedOut"
\* An early exit: the first TimedOut ends the loop over tasks.
AfterJoinShortCircuit(join_index, n, timeout) ==
    IF timeout \/ join_index = n THEN "status" ELSE "join"

\* Where the caller goes once the join_index-th of n tasks is joined: the
\* loop over tasks runs to its end whatever the results.
AfterJoin(join_index, n, timeout) ==
    IF join_index = n THEN "status" ELSE "join"

\* task.await.unwrap() for the next task of `tasks`; after the last one,
\* servers.write().await.
MainJoin ==
    /\ main.pc = "join"
    /\ tasks[main.join_index].pc = "finished"
    /\ main' = [main EXCEPT
                   !.timeout = JoinedTimeout(@, tasks[main.join_index].result),
                   !.join_index = @ + 1,
                   !.pc = AfterJoin(main.join_index, Len(tasks),
                                    JoinedTimeout(main.timeout,
                                        tasks[main.join_index].result))]
    /\ UNCHANGED <<server_state, index, rwlock, tasks, loader_vars, probe_vars>>

\* the final servers.write().await
MainStatusLock ==
    /\ main.pc = "status"
    /\ rwlock = Unlocked
    /\ rwlock' = [rwlock EXCEPT !.writer = Caller]
    /\ main' = [main EXCEPT !.pc = "writing"]
    /\ UNCHANGED <<server_state, index, tasks, loader_vars, probe_vars>>

AggregateStatus(timeout) == IF timeout THEN "TimedOut" ELSE "Ok"

\* servers_write[index].status = .., the guard dropped, and the return.
MainWriteStatusAndReturn ==
    /\ main.pc = "writing"
    /\ server_state' = [server_state EXCEPT ![index].status = AggregateStatus(main.timeout)]
    /\ rwlock' = drop_write_guard(rwlock)
    /\ main' = [main EXCEPT !.pc = "returned",
                            !.returned = AggregateStatus(main.timeout)]
    /\ UNCHANGED <<index, tasks, loader_vars, probe_vars>>

\* A loop head that gives up one tick before the timeout.
LoopHeadEarly(task) ==
    IF task.elapsed + 1 >= task.check.timeout
    THEN [task EXCEPT !.pc = "lock_timed_out"]
    ELSE [task EXCEPT !.pc = "probing", !.attempts = @ + 1]

\* The head of a task's loop: past the timeout the task goes for the write
\* lock, otherwise it starts a probe.
LoopHead(task) ==
    IF task.elapsed >= task.check.timeout
    THEN [task EXCEPT !.pc = "lock_timed_out"]
    ELSE [task EXCEPT !.pc = "probing", !.attempts = @ + 1]

\* The first poll of a task: Instant::now() and the head of the loop.
TaskStart(k) ==
    /\ tasks[k].pc = "spawned"
    /\ tasks' = [tasks EXCEPT ![k] = LoopHead([@ EXCEPT !.elapsed = 0])]
    /\ UNCHANGED <<server_state, index, rwlock, main, loader_vars, probe_vars>>

\* A retry that sleeps one tick whatever the check's retry is.
AfterProbeShortSleep(task, healthy) ==
    IF healthy THEN [task EXCEPT !.pc = "lock_ok", !.healthy = @ + 1]
    ELSE [task EXCEPT !.pc = "sleeping", !.sleep_left = 1]

\* A failed attempt followed by a sleep that is over at once.
AfterProbeNoSleep(task, healthy) ==
    IF healthy THEN [task EXCEPT !.pc = "lock_ok", !.healthy = @ + 1]
    ELSE [task EXCEPT !.pc = "sleeping", !.sleep_left = 0]

\* check_health(..).await returns healthy: true breaks out of the loop, on
\* false the task sleeps retry.
AfterProbe(task, healthy) ==
    IF healthy THEN [task EXCEPT !.pc = "lock_ok", !.healthy = @ + 1]
    ELSE [task EXCEPT !.pc = "sleeping", !.sleep_left = task.check.retry]

ProbeReturns(k, healthy) ==
    /\ tasks[k].pc = "probing"
    /\ tasks' = [tasks EXCEPT ![k] = AfterProbe(@, healthy)]
    /\ UNCHANGED <<server_state, index, rwlock, main, loader_vars, probe_vars>>

\* tokio::time::sleep(retry).await returns, no earlier than retry after it
\* was called; then the head of the loop.
SleepReturns(k) ==
    /\ tasks[k].pc = "sleeping"
    /\ tasks[k].sleep_left = 0
    /\ tasks' = [tasks EXCEPT ![k] = LoopHead(@)]
    /\ UNCHANGED <<server_state, index, rwlock, main, loader_vars, probe_vars>>

\* servers_clone.write().await of a task
TaskWriteLock(k) ==
    /\ tasks[k].pc \in {"lock_timed_out", "lock_ok"}
    /\ rwlock = Unlocked
    /\ rwlock' = [rwlock EXCEPT !.writer = TaskId(k)]
    /\ tasks' = [tasks EXCEPT ![k].pc =
                    IF @ = "lock_ok" THEN "write_ok" ELSE "write_timed_out"]
    /\ UNCHANGED <<server_state, index, main, loader_vars, probe_vars>>

\* the task's write of its check's status, the guard dropped, and its return
TaskWriteStatusAndReturn(k) ==
    /\ tasks[k].pc \in {"write_timed_out", "write_ok"}
    /\ LET outcome == IF tasks[k].pc = "write_ok" THEN "Ok" ELSE "TimedOut"
       IN  /\ server_state' = [server_state EXCEPT
                   ![index].check[tasks[k].check_index].status = outcome]
           /\ tasks' = [tasks EXCEPT ![k].pc = "finished",
                                     ![k].result = outcome]
    /\ rwlock' = drop_write_guard(rwlock)
    /\ UNCHANGED <<index, main, loader_vars, probe_vars>>

\* One tick of time, for every task that has started and not returned.
Elapse(task) ==
    IF task.pc \in {"spawned", "finished"} THEN task
    ELSE [task EXCEPT
             !.elapsed = IF @ > task.check.timeout THEN @ ELSE @ + 1,
             !.sleep_left = IF @ = 0 THEN 0 ELSE @ - 1]

Tick ==
    /\ tasks' = [k \in 1..Len(tasks) |-> Elapse(tasks[k])]
    /\ UNCHANGED <<server_state, index, rwlock, main, loader_vars, probe_vars>>

NextEngine ==
    \/ MainReadLock
    \/ MainCloneChecks
    \/ MainMarkLock
    \/ MainMarkRunningAndSpawn
    \/ MainJoin
    \/ MainStatusLock
    \/ MainWriteStatusAndReturn
    \/ \E k \in 1..Len(tasks) : TaskStart(k)
    \/ \E k \in 1..Len(tasks) : ProbeReturns(k, TRUE)
    \/ \E k \in 1..Len(tasks) : ProbeReturns(k, FALSE)
    \/ \E k \in 1..Len(tasks) : SleepReturns(k)
    \/ \E k \in 1..Len(tasks) : TaskWriteLock(k)
    \/ \E k \in 1..Len(tasks) : TaskWriteStatusAndReturn(k)
    \/ Tick

SpecEngine == InitEngine /\ [][NextEngine]_vars
\* The steps of the caller and of the k-th task.
MainStep ==
    \/ MainReadLock
    \/ MainCloneChecks
    \/ MainMarkLock
    \/ MainMarkRunningAndSpawn
    \/ MainJoin
    \/ MainStatusLock
    \/ MainWriteStatusAndReturn

TaskStep(k) ==
    /\ k <= Len(tasks)
    /\ \/ TaskStart(k)
       \/ ProbeReturns(k, TRUE)
       \/ ProbeReturns(k, FALSE)
       \/ SleepReturns(k)
       \/ TaskWriteLock(k)
       \/ TaskWriteStatusAndReturn(k)

\* The runtime polls every future that can make a step, every probe returns
\* (true or false), a lock that stays free is granted, and time advances.
Fairness ==
    /\ WF_vars(MainStep)
    /\ \A k \in 1..MaxTasks : WF_vars(TaskStep(k))
    /\ WF_vars(Tick)

SpecEngineFair == InitEngine /\ [][NextEngine]_vars /\ Fairness

\* Time under negligible probe and scheduling delays: it passes only while
\* every task that runs is in a sleep that is not over yet.
PromptTick ==
    /\ \A k \in 1..Len(tasks) :
           \/ tasks[k].pc \in {"spawned", "finished"}
           \/ tasks[k].pc = "sleeping" /\ tasks[k].sleep_left > 0
    /\ Tick

NextPrompt ==
    \/ MainReadLock
    \/ MainCloneChecks
    \/ MainMarkLock
    \/ MainMarkRunningAndSpawn
    \/ MainJoin
    \/ MainStatusLock
    \/ MainWriteStatusAndReturn
    \/ \E k \in 1..Len(tasks) : TaskStart(k)
    \/ \E k \in 1..Len(tasks) : ProbeReturns(k, TRUE)
    \/ \E k \in 1..Len(tasks) : ProbeReturns(k, FALSE)
    \/ \E k \in 1..Len(tasks) : SleepReturns(k)
    \/ \E k \in 1..Len(tasks) : TaskWriteLock(k)
    \/ \E k \in 1..Len(tasks) : TaskWriteStatusAndReturn(k)
    \/ PromptTick

\* perform_health_checks with probes, lock acquisitions and task switches
\* that take no time and sleeps that last exactly retry.
SpecPrompt == InitEngine /\ [][NextPrompt]_vars

-----------------------------------------------------------------------------
(* The dependency relation of a list, for the statements below. *)

NamesOf(servers) == {servers[i].name : i \in 1..Len(servers)}

UniqueNames(servers) ==
    \A i, j \in 1..Len(servers) : servers[i].name = servers[j].name => i = j

\* <<n, d>>: some server named n lists d in its depends.
DependsEdges(servers) ==
    UNION {{<<servers[i].name, d>> : d \in Range(servers[i].depends)} :
           i \in 1..Len(servers)}

RECURSIVE TransitiveClosure(_)
TransitiveClosure(R) ==
    LET R2 == R \cup {<<pq[1][1], pq[2][2]>> :
                      pq \in {x \in R \X R : x[1][2] = x[2][1]}}
    IN  IF R2 = R THEN R ELSE TransitiveClosure(R2)

DependsTransitively(servers) == TransitiveClosure(DependsEdges(servers))

OnCycle(servers, n) == <<n, n>> \in DependsTransitively(servers)

Acyclic(servers) == \A e \in DependsTransitively(servers) : e[1] # e[2]

FullyDefined(servers) ==
    \A e \in DependsEdges(servers) : e[2] \in NamesOf(servers)

NamesIn(servers) == [k \in 1..Len(servers) |-> servers[k].name]

PositionOf(servers, n) == CHOOSE k \in 1..Len(servers) : servers[k].name = n

\* out holds the records of inp, each exactly once.
IsPermutation(out, inp) ==
    /\ Len(out) = Len(inp)
    /\ \A i \in 1..Len(inp) :
           Cardinality({k \in 1..Len(out) : out[k] = inp[i]}) = 1

\* n1 -> n2 -> ... -> nk -> n1, listed n1..nk, each depending on the next only.
IsRing(servers) ==
    /\ Len(servers) >= 1
    /\ UniqueNames(servers)
    /\ \A i \in 1..Len(servers) :
           servers[i].depends = <<servers[(i % Len(servers)) + 1].name>>

\* Every server is listed after the servers its depends names.
AlreadyOrdered(servers) ==
    \A i \in 1..Len(servers) : \A d \in Range(servers[i].depends) :
        \E j \in 1..(i - 1) : servers[j].name = d

-----------------------------------------------------------------------------
(* C1: for every input with unique names, an acyclic dependency relation   *)
(* and no undefined dependency, determine_wakeup_order returns Ok with a   *)
(* permutation of the input in which every node comes after each of its    *)
(* direct and transitive dependencies.                                     *)
C1_TopologicalPermutation ==
    (/\ wakeup_order # Pending
     /\ UniqueNames(config) /\ Acyclic(config) /\ FullyDefined(config))
    => /\ wakeup_order.kind = "Ok"
       /\ IsPermutation(wakeup_order.servers, config)
       /\ \A e \in DependsTransitively(config) :
              PositionOf(wakeup_order.servers, e[2])
                  < PositionOf(wakeup_order.servers, e[1])

\* An acyclic, fully defined input with an edge has been resolved, and the
\* resolver had to reorder it.
C1_Witness ==
    /\ UniqueNames(config) /\ Acyclic(config) /\ FullyDefined(config)
    /\ DependsEdges(config) # {}
    /\ wakeup_order.kind = "Ok"
    /\ wakeup_order.servers # config

(* C2: for every input whose dependency relation contains a cycle (a node  *)
(* naming itself included) determine_wakeup_order never returns Ok, and a  *)
(* CircularDependency(name) names a node on a cycle.                       *)
C2_CycleNeverOk ==
    wakeup_order # Pending
    => /\ ~Acyclic(config) => wakeup_order.kind # "Ok"
       /\ wakeup_order.kind = "CircularDependency"
              => OnCycle(config, wakeup_order.name)

(* C3: the name carried by CircularDependency is the node that was in the  *)
(* visiting set when the traversal reached it again through a depends      *)
(* edge; for a ring listed n1..nk, each node depending on the next only,   *)
(* the name is n1.                                                         *)
C3_ReenteredNodeIsNamed ==
    /\ wakeup_order.kind = "CircularDependency"
       => /\ wakeup_order.name \in search.visiting
          /\ wakeup_order.name \notin search.visited
          /\ \E i \in 1..Len(config) :
                 /\ config[i].name \in search.visiting
                 /\ wakeup_order.name \in Range(config[i].depends)
    /\ (wakeup_order # Pending /\ IsRing(config))
       => wakeup_order = Err("CircularDependency", config[1].name)

\* The ring of four of test_circular_dependencies has been rejected.
C3_Witness ==
    /\ config = RingOfFour
    /\ wakeup_order.kind = "CircularDependency"

(* C4, as claimed: every input with a depends entry that matches no node   *)
(* fails with UndefinedDependency carrying an unmatched name.              *)
C4_UndefinedAlwaysReported ==
    (wakeup_order # Pending /\ ~FullyDefined(config))
    => /\ wakeup_order.kind = "UndefinedDependency"
       /\ wakeup_order.name \notin NamesOf(config)

(* C4, as amended: an UndefinedDependency carries a depends entry that     *)
(* matches no node, and an error carries no ordering; an input with        *)
(* pairwise distinct names and an unmatched depends entry fails, with      *)
(* UndefinedDependency or, when the traversal enters a node again first,   *)
(* with CircularDependency naming a node on a cycle; only an input with a  *)
(* repeated name and an unmatched entry can come back Ok.                  *)
C4_UndefinedOrCycleReported ==
    wakeup_order # Pending
    => /\ wakeup_order.kind = "UndefinedDependency"
          => /\ wakeup_order.name \notin NamesOf(config)
             /\ \E e \in DependsEdges(config) : e[2] = wakeup_order.name
       /\ wakeup_order.kind # "Ok" => DOMAIN wakeup_order = {"kind", "name"}
       /\ (~FullyDefined(config) /\ UniqueNames(config))
          => /\ wakeup_order.kind \in {"UndefinedDependency",
                                       "CircularDependency"}
             /\ wakeup_order.kind = "CircularDependency"
                    => OnCycle(config, wakeup_order.name)
       /\ (~FullyDefined(config) /\ wakeup_order.kind = "Ok")
          => ~UniqueNames(config)

\* An input with distinct names and an unmatched entry was rejected for the
\* cycle the traversal met first.
C4_Witness ==
    /\ UniqueNames(config)
    /\ ~FullyDefined(config)
    /\ wakeup_order.kind = "CircularDependency"

\* The names a traversal without memory emits from the server named n: its
\* dependencies' names, in list order, then n (inputs with unique names, no
\* cycle and no undefined dependency).
RECURSIVE Unfold(_, _)
RECURSIVE UnfoldAll(_, _, _)
UnfoldAll(servers, names, i) ==
    IF i > Len(names) THEN <<>>
    ELSE Unfold(servers, names[i]) \o UnfoldAll(servers, names, i + 1)

Unfold(servers, n) ==
    UnfoldAll(servers, servers[PositionOf(servers, n)].depends, 1)
        \o <<n>>

\* s without the later occurrences of its elements.
RECURSIVE FirstOccurrences(_)
FirstOccurrences(s) ==
    IF s = <<>> THEN <<>>
    ELSE LET front == FirstOccurrences(SubSeq(s, 1, Len(s) - 1))
         IN  IF s[Len(s)] \in Range(front) THEN front
             ELSE Append(front, s[Len(s)])

(* C5: on success the output is exactly the depth-first post-order seeded  *)
(* with the nodes in input order and recursing into each depends list in   *)
(* list order; the input of test_determine_wakeup_order yields exactly     *)
(* server_c, server_b, server_a.                                           *)
C5_DepthFirstPostOrder ==
    /\ (wakeup_order.kind = "Ok" /\ UniqueNames(config))
       => NamesIn(wakeup_order.servers)
              = FirstOccurrences(UnfoldAll(config, NamesIn(config), 1))
    /\ (wakeup_order # Pending /\ config = WakeupOrderFixture)
       => /\ wakeup_order.kind = "Ok"
          /\ NamesIn(wakeup_order.servers)
                 = <<"server_c", "server_b", "server_a">>

\* An input whose valid orders differ has been resolved: a server with two
\* dependencies that do not depend on each other.
C5_Witness ==
    /\ config \in FanConfigs
    /\ config[1].depends = <<"server3", "server2">>
    /\ wakeup_order.kind = "Ok"
    /\ NamesIn(wakeup_order.servers) = <<"server3", "server2", "server1">>

(* C6: an input without dependency edges is returned in input order; an    *)
(* input that lists every node after its dependencies is returned          *)
(* unchanged, so determine_wakeup_order applied to its own output returns  *)
(* that output again.                                                      *)
C6_OrderedInputUnchanged ==
    /\ (wakeup_order # Pending /\ DependsEdges(config) = {})
       => wakeup_order = Ok(config)
    /\ (wakeup_order # Pending /\ AlreadyOrdered(config))
       => wakeup_order = Ok(config)
    /\ reorder # Pending => reorder = wakeup_order

(* C7: every list returned as Ok has pairwise distinct names and only      *)
(* depends entries that name a node of the list; a configuration with a    *)
(* repeated name or an unmatched depends entry is rejected at load time.   *)
C7_AcceptedConfigsWellFormed ==
    (file = "decoded" /\ loaded # Pending)
    => /\ loaded.kind = "Ok"
          => /\ UniqueNames(loaded.servers)
             /\ FullyDefined(loaded.servers)
       /\ (~UniqueNames(config) \/ ~FullyDefined(config))
          => loaded.kind # "Ok"

\* What the claims say makes a check definition bad.
BadDefinition(m) ==
    \/ /\ m.type \in {"Http", "Shell"}
       /\ m.status = None
       /\ m.regex = None
    \/ /\ m.type = "Port"
       /\ m.ip \notin IpLiterals

ChecksOf(servers) ==
    {<<i, j>> \in (1..Len(servers)) \X (1..(MaxChecks + 1)) :
        j <= Len(servers[i].check)}

SomeBadDefinition(servers) ==
    \E c \in ChecksOf(servers) : BadDefinition(servers[c[1]].check[c[2]].method)

(* C8: validate_health_check returns BadHealthCheckDefinition exactly when *)
(* the method is Http or Shell with neither status nor regex, or Port with *)
(* an ip that does not parse; otherwise it returns Ok.                     *)
C8_ValidateHealthCheck ==
    validation # Pending
    => \A c \in ChecksOf(config) :
           LET m == config[c[1]].check[c[2]].method
               r == validation[c[1]][c[2]]
           IN  /\ r.kind = "BadHealthCheckDefinition" <=> BadDefinition(m)
               /\ r = OkUnit <=> ~BadDefinition(m)

\* A check with only a status and a check with only a regex have passed, and
\* a check with neither has been refused.
C8_Witness ==
    /\ validation # Pending
    /\ \E c \in ChecksOf(config) :
           /\ config[c[1]].check[c[2]].method.type = "Http"
           /\ config[c[1]].check[c[2]].method.status # None
           /\ config[c[1]].check[c[2]].method.regex = None
           /\ validation[c[1]][c[2]] = OkUnit
    /\ \E c \in ChecksOf(config) :
           /\ config[c[1]].check[c[2]].method.type = "Shell"
           /\ config[c[1]].check[c[2]].method.status = None
           /\ config[c[1]].check[c[2]].method.regex = None
           /\ validation[c[1]][c[2]].kind = "BadHealthCheckDefinition"

(* C9: parse_server_dependencies validates every check of every node       *)
(* before it resolves the graph: with any invalid check the load fails     *)
(* with BadHealthCheckDefinition, whatever the graph is, and an ordering   *)
(* is returned only if all checks are valid and the graph resolves.        *)
C9_ValidationBeforeResolution ==
    (file = "decoded" /\ loaded # Pending)
    => /\ SomeBadDefinition(config)
          <=> loaded.kind = "BadHealthCheckDefinition"
       /\ loaded.kind # "Ok" => DOMAIN loaded = {"kind", "name"}
       /\ loaded.kind = "Ok"
          => /\ ~SomeBadDefinition(config)
             /\ loaded = determine_wakeup_order(config)
       /\ ~SomeBadDefinition(config)
          => loaded = determine_wakeup_order(config)

\* A configuration with a cycle whose last server carries an invalid check
\* was refused for the check.
C9_Witness ==
    /\ file = "decoded"
    /\ ~Acyclic(config)
    /\ Len(config) = 2
    /\ config[1].check = <<>>
    /\ SomeBadDefinition(config)
    /\ loaded.kind = "BadHealthCheckDefinition"

(* C10: perform_health_checks returns TimedOut if and only if at least one *)
(* of the node's check tasks resolved TimedOut, and Ok if and only if      *)
(* every check task resolved Ok; the status written to the node in the     *)
(* shared list is the value returned.                                      *)
C10_AggregateOfTaskResults ==
    main.pc = "returned"
    => /\ Len(tasks) = Len(server_state[index].check)
       /\ main.returned = "TimedOut"
          <=> \E k \in 1..Len(tasks) : tasks[k].result = "TimedOut"
       /\ main.returned = "Ok"
          <=> \A k \in 1..Len(tasks) : tasks[k].result = "Ok"
       /\ server_state[index].status = main.returned

\* A call has returned TimedOut for a node whose first check timed out and
\* whose second check succeeded.
C10_Witness ==
    /\ main.pc = "returned"
    /\ Len(tasks) = 2
    /\ tasks[1].result = "TimedOut"
    /\ tasks[2].result = "Ok"
    /\ main.returned = "TimedOut"
    /\ server_state[index].status = "TimedOut"

\* Every check task of the call has been spawned and has returned.
AllTasksTerminal ==
    /\ Len(tasks) = Len(server_state[index].check)
    /\ \A k \in 1..Len(tasks) :
           tasks[k].pc = "finished" /\ tasks[k].result \in {"Ok", "TimedOut"}

(* C11: the caller neither asks for the lock of the aggregate write, nor   *)
(* writes the node's status, nor returns before every check task of the    *)
(* node has returned Ok or TimedOut: no result of a sibling ends the wait  *)
(* early, and a check that never succeeds is waited for until its own      *)
(* timeout has passed.  So, from all-Waiting statuses, a node status Ok    *)
(* means all its checks are Ok and TimedOut means some check is TimedOut.  *)
C11_WaitsForEveryTask ==
    /\ (main.pc \in {"status", "writing", "returned"}
        \/ server_state[index].status # ServerStatusDefault)
       => /\ AllTasksTerminal
          /\ \A k \in 1..Len(tasks) :
                 tasks[k].healthy = 0
                 => /\ tasks[k].result = "TimedOut"
                    /\ tasks[k].elapsed >= tasks[k].check.timeout
    /\ server_state[index].status = "Ok"
       => \A j \in 1..Len(server_state[index].check) :
              server_state[index].check[j].status = "Ok"
    /\ server_state[index].status = "TimedOut"
       => \E j \in 1..Len(server_state[index].check) :
              server_state[index].check[j].status = "TimedOut"

\* A call has returned TimedOut for a node whose first check succeeded at
\* once and whose second check never succeeded.
C11_Witness ==
    /\ main.pc = "returned"
    /\ Len(tasks) = 2
    /\ tasks[1].result = "Ok" /\ tasks[1].elapsed = 0
    /\ tasks[2].result = "TimedOut" /\ tasks[2].check.timeout > 0
    /\ tasks[2].elapsed >= tasks[2].check.timeout
    /\ main.returned = "TimedOut"

(* C12: on a node with zero checks perform_health_checks spawns no task,   *)
(* so makes no probe and no sleep, never enters the fan-out or the join,   *)
(* sets the node's status to Ok and returns Ok.                            *)
C12_NoChecksIsOk ==
    server_state[index].check = <<>>
    => /\ tasks = <<>>
       /\ main.pc \in {"read", "clone", "status", "writing", "returned"}
       /\ main.pc = "returned"
          => /\ main.returned = "Ok"
             /\ server_state[index].status = "Ok"
       /\ main.pc # "returned"
          => server_state[index].status = ServerStatusDefault

\* A call on a node without checks has returned.
C12_Witness ==
    /\ server_state[index].check = <<>>
    /\ main.pc = "returned"
    /\ main.returned = "Ok"
    /\ tasks = <<>>

(* C13: a check is marked TimedOut only when the time elapsed since its    *)
(* task started is at least the check's timeout: a task on its way to      *)
(* that write, a task that returned TimedOut and a check whose shared      *)
(* status is TimedOut all have elapsed >= timeout; so when                 *)
(* perform_health_checks returns TimedOut, the timeout of some timed-out   *)
(* check has elapsed since that check's task, spawned by the call,         *)
(* started.                                                                *)
C13_NoEarlyTimedOut ==
    /\ \A k \in 1..Len(tasks) :
           (\/ tasks[k].pc \in {"lock_timed_out", "write_timed_out"}
            \/ tasks[k].result = "TimedOut"
            \/ server_state[index].check[tasks[k].check_index].status
                   = "TimedOut")
           => tasks[k].elapsed >= tasks[k].check.timeout
    /\ \A j \in 1..Len(server_state[index].check) :
           server_state[index].check[j].status = "TimedOut"
           => \E k \in 1..Len(tasks) : tasks[k].check_index = j
    /\ main.returned = "TimedOut"
       => \E k \in 1..Len(tasks) :
              /\ tasks[k].result = "TimedOut"
              /\ tasks[k].elapsed >= tasks[k].check.timeout

\* The call of test_health_check_timeout has returned TimedOut, its check
\* having been given up no earlier than its timeout.
C13_Witness ==
    /\ main.pc = "returned"
    /\ main.returned = "TimedOut"
    /\ Len(tasks) = 1
    /\ tasks[1].check = TimeoutTestCheck
    /\ tasks[1].result = "TimedOut"
    /\ tasks[1].elapsed >= 5

\* ceil(a / b) for b > 0
Ceil(a, b) == (a + b - 1) \div b

(* C14: when probes take negligible time and every probe fails, a check    *)
(* with retry > 0 resolves TimedOut after exactly ceil(timeout / retry)    *)
(* probe attempts, which is less than one attempt away from                *)
(* timeout / retry; with timeout 2 s and retry 800 ms that is 3.           *)
C14_AttemptsBeforeTimedOut ==
    \A k \in 1..Len(tasks) :
        (/\ tasks[k].check.retry > 0
         /\ \/ tasks[k].pc \in {"lock_timed_out", "write_timed_out"}
            \/ tasks[k].result = "TimedOut")
        => /\ tasks[k].healthy = 0
           /\ tasks[k].attempts = Ceil(tasks[k].check.timeout,
                                       tasks[k].check.retry)
           /\ (tasks[k].attempts - 1) * tasks[k].check.retry
                  < tasks[k].check.timeout
           /\ tasks[k].check.timeout
                  <= tasks[k].attempts * tasks[k].check.retry
           /\ tasks[k].check = TimeoutTestCheck => tasks[k].attempts = 3

\* The check of test_health_check_timeout has timed out after three probes.
C14_Witness ==
    /\ Len(tasks) = 1
    /\ tasks[1].check = TimeoutTestCheck
    /\ tasks[1].result = "TimedOut"
    /\ tasks[1].attempts = 3
    /\ main.returned = "TimedOut"

(* C15: a check's timeout is the maximum duration of the check: once more  *)
(* than timeout has elapsed since its task started, the task is no longer  *)
(* probing or sleeping (it has been abandoned as TimedOut or has resolved  *)
(* Ok), whatever the retry interval and the duration of a probe.           *)
C15_TimeoutIsMaximum ==
    \A k \in 1..Len(tasks) :
        tasks[k].elapsed > tasks[k].check.timeout
        => tasks[k].pc \notin {"probing", "sleeping"}

\* One step of a check's shared status along Waiting -> Running -> terminal.
StatusStep(old, new) ==
    \/ new = old
    \/ old = "Waiting" /\ new = "Running"
    \/ old = "Running" /\ new \in {"Ok", "TimedOut"}

LockHolders == (rwlock.readers \cup {rwlock.writer}) \ {Nobody}

(* C17: neither the caller nor a check task holds the read or the write    *)
(* lock of the shared list while it runs a probe, sleeps its retry or      *)
(* awaits the check tasks: a lock is held only across the step that reads  *)
(* or writes the list, and is free again at the next await that is not     *)
(* itself a lock acquisition.                                              *)
C17_NoLockAcrossSuspension ==
    /\ Caller \in LockHolders => main.pc \in {"clone", "marking", "writing"}
    /\ \A k \in 1..MaxTasks + 1 :
           TaskId(k) \in LockHolders
           => /\ k <= Len(tasks)
              /\ tasks[k].pc \in {"write_timed_out", "write_ok"}
    /\ main.pc \in {"join", "returned"} => Caller \notin LockHolders
    /\ \A k \in 1..Len(tasks) :
           tasks[k].pc \in {"spawned", "probing", "sleeping", "finished"}
           => TaskId(k) \notin LockHolders

\* The caller awaits the first task, which sleeps, while the second task
\* holds the write lock.
C17_Witness ==
    /\ main.pc = "join"
    /\ Len(tasks) = 2
    /\ tasks[1].pc = "sleeping"
    /\ rwlock.writer = TaskId(2)

\* The configured criteria of an Http or Shell check against a reply, each
\* on its own.
StatusCriterion(check, reply) ==
    is_none(check.status)
    \/ IF check.type = "Http" THEN reply.status = check.status[1]
       ELSE reply.code = check.status

RegexCriterion(check, reply) ==
    is_none(check.regex)
    \/ IF check.type = "Http"
       THEN ~is_none(reply.body) /\ is_match(check.regex[1], reply.body[1])
       ELSE is_match(check.regex[1], reply.stdout)

\* The probe's verdict when the regex is looked at before the status.
RegexFirst(check, reply) ==
    IF reply.kind # "Ok" THEN FALSE
    ELSE IF ~RegexCriterion(check, reply) THEN FALSE
    ELSE StatusCriterion(check, reply)

(* C18: one probe attempt of an Http or Shell check returns true if and    *)
(* only if a response or process result was obtained, the configured       *)
(* status (if any) equals the actual status or exit code, and the          *)
(* configured regex (if any) matches the body or stdout; no response, a    *)
(* body that cannot be read for the regex, or a spawn failure gives false; *)
(* evaluating the regex before the status gives the same result.           *)
C18_ProbeIsConjunction ==
    (probe_result # None /\ probe.method.type \in {"Http", "Shell"})
    => LET check == probe.method
           reply == probe.reply
           result == probe_result[1]
       IN  /\ result <=> /\ reply.kind = "Ok"
                         /\ StatusCriterion(check, reply)
                         /\ RegexCriterion(check, reply)
           /\ reply.kind = "Err" => ~result
           /\ (/\ check.type = "Http"
               /\ reply.kind = "Ok"
               /\ ~is_none(check.regex)
               /\ is_none(reply.body)) => ~result
           /\ result = RegexFirst(check, reply)

\* An Http probe with both criteria configured has been answered with the
\* right status and a body the regex does not match, and has failed.
C18_Witness ==
    /\ probe_result = Some(FALSE)
    /\ probe.method.type = "Http"
    /\ probe.method.status = Some(200)
    /\ probe.method.regex = Some("OK")
    /\ probe.reply.kind = "Ok"
    /\ probe.reply.status = 200
    /\ probe.reply.body = Some("down")

\* What C19 says of the state of a task.
AttemptsAndOutcome(task) ==
    /\ task.healthy \in {0, 1}
    /\ task.healthy <= task.attempts
    /\ task.healthy = 1 <=> (\/ task.pc \in {"lock_ok", "write_ok"}
                             \/ task.result = "Ok")
    /\ task.result = "TimedOut" => task.healthy = 0
    /\ task.check.timeout = 0
       => /\ task.attempts = 0
          /\ task.pc \in {"spawned", "lock_timed_out", "write_timed_out",
                          "finished"}
          /\ task.pc = "finished" => task.result = "TimedOut"

\* What C19 says of a step of a task.
AttemptStep(old, new) ==
    /\ new.attempts # old.attempts
       => /\ new.attempts = old.attempts + 1
          /\ new.pc = "probing"
          /\ old.pc \in {"spawned", "sleeping"}
          /\ new.elapsed < new.check.timeout
          /\ old.healthy = 0
    /\ (old.pc = "probing" /\ new.pc # "probing")
       => \/ new.pc = "lock_ok" /\ new.healthy = 1
          \/ /\ new.pc = "sleeping"
             /\ new.sleep_left = new.check.retry
             /\ new.healthy = 0
    /\ (old.pc = "sleeping" /\ new.pc # "sleeping")
       => /\ old.sleep_left = 0
          /\ new.pc \in {"probing", "lock_timed_out"}
          /\ new.pc = "probing" <=> new.elapsed < new.check.timeout
    /\ (old.pc \in {"lock_ok", "write_ok"})
       => new.pc \in {"lock_ok", "write_ok", "finished"}
    /\ old.pc = "finished" => new = old

(* C19: a check task starts a probe attempt only at a loop head where the  *)
(* time elapsed since its start is strictly below the timeout; it resolves *)
(* Ok exactly when an attempt returned true, after which it makes no       *)
(* further attempt and no sleep, and resolves TimedOut only when every     *)
(* attempt returned false; after a failed attempt it sleeps the full retry *)
(* before it looks at the timeout again; with timeout 0 it resolves        *)
(* TimedOut with zero attempts.                                            *)
C19_RetryLoop ==
    /\ [](\A k \in 1..Len(tasks) : AttemptsAndOutcome(tasks[k]))
    /\ [][\A k \in 1..Len(tasks) : AttemptStep(tasks[k], tasks'[k])]_vars

\* A check with a timeout above zero has succeeded at its second attempt,
\* and a check with timeout zero has timed out without an attempt.
C19_Witness ==
    /\ Len(tasks) = 2
    /\ tasks[1].result = "Ok"
    /\ tasks[1].attempts = 2
    /\ tasks[2].check.timeout = 0
    /\ tasks[2].result = "TimedOut"
    /\ tasks[2].attempts = 0

(* C20: under fair scheduling, with time advancing and every probe         *)
(* attempt returning, every check task eventually returns Ok or TimedOut   *)
(* and perform_health_checks eventually returns, for every number of       *)
(* checks and every interleaving of the lock acquisitions of the caller    *)
(* and the tasks.                                                          *)
C20_EventuallyReturns ==
    <>(/\ main.pc = "returned"
       /\ Len(tasks) = Len(server_state[index].check)
       /\ \A k \in 1..Len(tasks) : tasks[k].pc = "finished")

\* A call with as many checks as the bound allows has returned after a task
\* had to retry.
C20_Witness ==
    /\ main.pc = "returned"
    /\ Len(tasks) = MaxTasks
    /\ \A k \in 1..Len(tasks) : tasks[k].pc = "finished"
    /\ \E k \in 1..Len(tasks) : tasks[k].attempts > 1

\* The checks of the node whose status differs between two lists.
ChecksWritten(old, new) ==
    {j \in 1..Len(old[index].check) :
         new[index].check[j].status # old[index].check[j].status}

(* C21: under every interleaving of the check tasks no status write is     *)
(* lost: the k-th task writes the k-th check and no other, a check's       *)
(* shared status is its own task's outcome from the moment that task       *)
(* returns, so that when perform_health_checks returns every check's       *)
(* status is the outcome its task returned, and the node's status is the   *)
(* returned aggregate.                                                     *)
C21_NoLostStatusWrite ==
    /\ [](/\ \A k \in 1..Len(tasks) :
                 /\ tasks[k].check_index = k
                 /\ tasks[k].pc = "finished"
                    => server_state[index].check[k].status = tasks[k].result
          /\ main.pc = "returned"
             => /\ Len(tasks) = Len(server_state[index].check)
                /\ \A k \in 1..Len(tasks) :
                       /\ tasks[k].result \in {"Ok", "TimedOut"}
                       /\ server_state[index].check[k].status
                              = tasks[k].result
                /\ server_state[index].status = main.returned)
    /\ [][\A k \in 1..Len(tasks) :
              tasks'[k] # tasks[k]
              => ChecksWritten(server_state, server_state') \subseteq {k}]_vars

\* A call has returned with the first check's status TimedOut and the second
\* check's status Ok, each the outcome of its own task, the second task
\* having written first.
C21_Witness ==
    /\ main.pc = "returned"
    /\ Len(tasks) = 2
    /\ tasks[1].result = "TimedOut"
    /\ tasks[2].result = "Ok"
    /\ tasks[2].elapsed < tasks[1].elapsed
    /\ server_state[index].check[1].status = "TimedOut"
    /\ server_state[index].check[2].status = "Ok"
    /\ server_state[index].status = "TimedOut"

\* A server without its status and the statuses of its checks.
Structure(server) ==
    [name |-> server.name, mac |-> server.mac, depends |-> server.depends,
     check |-> [j \in 1..Len(server.check) |->
                   [retry |-> server.check[j].retry,
                    timeout |-> server.check[j].timeout,
                    method |-> server.check[j].method]]]

\* What a step may change in the shared list.
OnlyStatusesAtIndex(old, new) ==
    /\ Len(new) = Len(old)
    /\ \A i \in 1..Len(old) :
           /\ Structure(new[i]) = Structure(old[i])
           /\ i # index => new[i] = old[i]

(* C22: perform_health_checks(servers, index) changes only the status of   *)
(* the node at index and the statuses of that node's checks: no step of    *)
(* the caller or of a task changes another node or its checks, the length  *)
(* or order of the list, or the name, depends, check methods, retry or     *)
(* timeout of any node; so every other node stays as it was.               *)
C22_OnlyOwnStatusesChange ==
    /\ [](\A i \in 1..Len(server_state) :
              i # index
              => /\ server_state[i].status = ServerStatusDefault
                 /\ \A j \in 1..Len(server_state[i].check) :
                        server_state[i].check[j].status = CheckStatusDefault)
    /\ [][/\ index' = index
          /\ OnlyStatusesAtIndex(server_state, server_state')]_vars

\* A call on the second node of the list has returned TimedOut, and the
\* first node and its check are still Waiting.
C22_Witness ==
    /\ main.pc = "returned"
    /\ index = 2
    /\ server_state[2].status = "TimedOut"
    /\ \E j \in 1..Len(server_state[2].check) :
           server_state[2].check[j].status = "TimedOut"
    /\ server_state[1].name = "server2"
    /\ server_state[1].status = "Waiting"
    /\ server_state[1].check[1].status = "Waiting"

=============================================================================
